---- MODULE Spec2Model ----
(***************************************************************************)
(* The d2l_kinesis output of telegraf: a gzip record generator that packs  *)
(* serialized metrics into Kinesis records under a byte budget, a replay   *)
(* set of records, the batch assembler putRecordBatches and the retry      *)
(* loop putRecordBatchesWithRetry.                                         *)
(*                                                                         *)
(* Sizes are byte counts.  A metric is modelled by what the generator      *)
(* reads of it: whether it serializes, the length of its serialized bytes  *)
(* and the length of the deflate encoding of those bytes.  A record is     *)
(* modelled by the length of its payload, the metrics whose bytes are in   *)
(* it, its metric count, the length of its partition key and RequestSize.  *)
(***************************************************************************)
EXTENDS Integers, Sequences, FiniteSets, TLC

(***************************************************************************)
(* Bounds of the model.                                                    *)
(***************************************************************************)
MaxItems == 3
\* bytesPending of an estimator driven directly
MaxPending == 50000

(***************************************************************************)
(* Program constants.                                                      *)
(***************************************************************************)
gzipHeaderSize == 10
gzipFooterSize == 8
\* the estimator's block length and per-block overhead (MaxPotentialSizeWith)
estimatorBlockSize == 16383
estimatorBlockOverhead == 5

(***************************************************************************)
(* The compression stream (compress/gzip over compress/flate, written to a *)
(* bytes.Buffer).  deflate emits a block per 16384 literal tokens; a       *)
(* stored block costs 5 bytes over its data; Flush ends with an empty      *)
(* stored block (the 5-byte sync marker); Close ends with an empty final   *)
(* stored block (5 bytes) and gzip appends the 8-byte trailer.             *)
(***************************************************************************)
flateBlockTokens == 16384
storedBlockOverhead == 5
syncMarkerSize == 5
finalBlockSize == 5

\* The metrics a caller may hand over: ok = the serializer succeeds,
\* size = len(bytes), csize = length of the deflate encoding of the bytes
\* (csize = size: incompressible, emitted as stored data).
Metric(ok, size, csize) == [ok |-> ok, size |-> size, csize |-> csize]

MetricKinds ==
    { Metric(TRUE, 1000, 1000),   \* incompressible
      Metric(TRUE, 600, 100),     \* compressible
      Metric(TRUE, 2000, 2000),   \* larger than any record of MaxRecordSizes
      Metric(FALSE, 0, 0) }       \* the serializer fails on it

MaxRecordSizes == {1023, 1100}

RECURSIVE SeqsUpTo(_, _)
SeqsUpTo(S, n) ==
    IF n = 0 THEN { <<>> }
    ELSE LET shorter == SeqsUpTo(S, n - 1)
         IN  shorter \cup { Append(s, x) : s \in { t \in shorter : Len(t) = n - 1 }, x \in S }

MetricSeqs == SeqsUpTo(MetricKinds, MaxItems)

(***************************************************************************)
(* State.                                                                  *)
(***************************************************************************)
VARIABLES
    \* gzipKinesisRecordGenerator
    maxRecordSize,      \* g.maxRecordSize
    pkLen,              \* len of the string g.pkGenerator() returns
    pkCalls,            \* the calls of g.pkGenerator since the last Reset
    g,                  \* [index, metricsCount, metrics]
    stream,             \* g.buffer and g.writer
    nx,                 \* the locals of a running Next(): index, recordMetricCount, recordSizeEstimator
    gpc,                \* position of the generator: "idle" or "scan" (in the loop of Next)
    g_ret,              \* what the last Next() returned
    \* what happened since the last Reset
    yielded,            \* the records Next() returned, in order
    dropped,            \* positions of the metrics dropped as excessively large
    serFailed,          \* positions of the metrics the serializer failed on
    serialized,         \* positions of the metrics handed to g.serializer.Serialize
    reserialized,       \* positions of the metrics handed to it more than once
    g_ended,            \* Next() has returned the end-marker
    \* kinesisRecordSet
    s,                  \* [count, index, records]
    s_ret,              \* what the last Next() of the set returned
    s_ended,            \* Next() of the set has returned the end-marker
    s_out,              \* the records Next() of the set has returned, in order
    \* d2lKinesisOutput
    MaxRecordRetries,   \* k.MaxRecordRetries
    maxRecordsPerRequest, \* k.maxRecordsPerRequest
    maxRequestSize,     \* k.maxRequestSize
    StreamName,         \* k.StreamName
    MaxRecordSize,      \* k.MaxRecordSize
    recordGenerator,    \* k.recordGenerator: "nil" or "created"
    c_ret,              \* what Connect returned: "none" (not called), "nil", or the error
    w_metrics,          \* the metrics the running Write was called with
    \* a gZipSizeEstimator of its own
    e,                  \* [bytesCommited, bytesPending]
    e_ret,              \* the last call on it: [op, before, arg, value]
    pc,                 \* position of the caller: "harness" (a caller that drives the
                        \* iterators itself), or of Write: "idle", "pull", "wait",
                        \* "countflush", "passdone", "returned"
    attempt,            \* putRecordBatchesWithRetry: attempt
    source,             \* recordIterator: "gen" (the generator) or "set" (a record set)
    batch,              \* putRecordBatches: batch
    batchRecordCount,
    batchRequestSize,
    allFailedRecords,
    w_ret,              \* what Write returned: "none" (not yet), "nil", "err"
    \* what happened during the Write
    calls,              \* the calls of k.svc.PutRecords: [pass, records, outcome]
    pulled,             \* the records the running pass got from recordIterator.Next()
    errorLog            \* the Errorf calls of putRecordBatchesWithRetry

genVars == <<maxRecordSize, pkLen, pkCalls, g, stream, nx, gpc, g_ret, yielded, dropped, serFailed,
             serialized, reserialized, g_ended>>
setVars == <<s, s_ret, s_ended, s_out>>
cfgVars == <<MaxRecordRetries, maxRecordsPerRequest, maxRequestSize>>
conVars == <<StreamName, MaxRecordSize, recordGenerator, c_ret>>
estVars == <<e, e_ret>>
passVars == <<batch, batchRecordCount, batchRequestSize, allFailedRecords>>
outVars == <<pc, attempt, source, passVars, w_ret, calls, pulled, errorLog>>
vars == <<genVars, setVars, cfgVars, conVars, estVars, w_metrics, outVars>>

(***************************************************************************)
(* gZipSizeEstimator                                                       *)
(***************************************************************************)
createGZipSizeEstimator ==
    [bytesCommited |-> gzipHeaderSize + gzipFooterSize, bytesPending |-> 0]

RecordBytes(est, bytes) == [est EXCEPT !.bytesPending = @ + bytes]

CommitKeepsPending(est, bytes) ==
    [bytesCommited |-> bytes + gzipFooterSize, bytesPending |-> est.bytesPending]
CommitNoFooter(est, bytes) == [bytesCommited |-> bytes, bytesPending |-> 0]
Commit(est, bytes) == [bytesCommited |-> bytes + gzipFooterSize, bytesPending |-> 0]

MaxPotentialSizeWithCeil(est, additionalBytes) ==
    LET bytesCount == est.bytesPending + additionalBytes
        blocksOverhead ==
            estimatorBlockOverhead * ((bytesCount + estimatorBlockSize - 1) \div estimatorBlockSize)
    IN  est.bytesCommited + bytesCount + blocksOverhead
MaxPotentialSizeWith(est, additionalBytes) ==
    LET bytesCount == est.bytesPending + additionalBytes
        blocksOverhead == estimatorBlockOverhead * ((bytesCount \div estimatorBlockSize) + 1)
    IN  est.bytesCommited + bytesCount + blocksOverhead

(***************************************************************************)
(* The compression stream: buf = g.buffer.Len() once the writer has        *)
(* emitted everything it holds, hdr = the gzip header is written,          *)
(* raw/enc = serialized bytes written since the last flush and the length  *)
(* of their deflate encoding, items = positions of the metrics written     *)
(* since the stream was reset.                                             *)
(***************************************************************************)
StreamReset == [buf |-> 0, hdr |-> FALSE, raw |-> 0, enc |-> 0, items |-> <<>>]

\* bytes deflate emits for the pending data: its encoding plus the block headers
DeflateSize(raw, enc) ==
    IF raw = 0 THEN 0
    ELSE enc + storedBlockOverhead * ((raw + flateBlockTokens - 1) \div flateBlockTokens)

HeaderBytes(st) == IF st.hdr THEN 0 ELSE gzipHeaderSize

WriterWritePrepends(st, pos, m) ==
    [st EXCEPT !.buf = @ + HeaderBytes(st), !.hdr = TRUE,
               !.raw = @ + m.size, !.enc = @ + m.csize,
               !.items = <<pos>> \o @]
WriterWrite(st, pos, m) ==
    [st EXCEPT !.buf = @ + HeaderBytes(st), !.hdr = TRUE,
               !.raw = @ + m.size, !.enc = @ + m.csize,
               !.items = Append(@, pos)]

WriterFlush(st) ==
    [st EXCEPT !.buf = @ + HeaderBytes(st) + DeflateSize(st.raw, st.enc) + syncMarkerSize,
               !.hdr = TRUE, !.raw = 0, !.enc = 0]

WriterClose(st) ==
    [st EXCEPT !.buf = @ + HeaderBytes(st) + DeflateSize(st.raw, st.enc)
                         + finalBlockSize + gzipFooterSize,
               !.hdr = TRUE, !.raw = 0, !.enc = 0]

(***************************************************************************)
(* kinesisRecord                                                           *)
(***************************************************************************)
createKinesisRecordNoKey(id, data, items, partitionKey, metrics) ==
    [id |-> id, data |-> data, items |-> items, pk |-> partitionKey,
     Metrics |-> metrics, RequestSize |-> data]
createKinesisRecord(id, data, items, partitionKey, metrics) ==
    [id |-> id, data |-> data, items |-> items, pk |-> partitionKey,
     Metrics |-> metrics, RequestSize |-> data + partitionKey]

(***************************************************************************)
(* gzipKinesisRecordGenerator                                              *)
(***************************************************************************)
NoLocals == [index |-> 0, recordMetricCount |-> 0, est |-> createGZipSizeEstimator]
EndMarker == [kind |-> "end"]
NoResult == [kind |-> "none"]

\* a call on an estimator: the estimator before it, its argument, what it returned
NoCall == [op |-> "none"]
Call(op, before, arg, value) == [op |-> op, before |-> before, arg |-> arg, value |-> value]
RecordResult(r) == [kind |-> "record", record |-> r]
ErrorResult == [kind |-> "error"]

\* g.index after Reset
ResetIndexKeeps == g.index
ResetIndex == 0

\* Reset(metrics)
GenReset(metrics) ==
    /\ g' = [index |-> ResetIndex, metricsCount |-> Len(metrics), metrics |-> metrics]
    /\ yielded' = <<>>
    /\ dropped' = {}
    /\ serFailed' = {}
    /\ serialized' = {}
    /\ reserialized' = {}
    /\ g_ended' = FALSE
    /\ g_ret' = NoResult
    /\ pkCalls' = 0

\* the calls of g.pkGenerator made so far, after yieldRecord has made a record
KeyCallsAfterYieldTwice(n) == n + 2
KeyCallsAfterYield(n) == n + 1

\* yieldRecord(metrics): close the stream, copy the buffer, make the record
yieldRecord(st, metrics) ==
    LET closed == WriterClose(st)
    IN  createKinesisRecord(Len(yielded) + 1, closed.buf, closed.items, pkLen, metrics)

\* g.index when a record is cut before a metric that does not fit: that metric
YieldIndexSkips(index) == index + 1
YieldIndexRewinds(index) == index - 1
YieldIndex(index) == index

\* g.index when the last record is yielded after the loop
EndIndex(index) == index + 1

\* the records yielded so far, once g.buffer is reset and written again: their
\* Data is a copy of the buffer made by yieldRecord, so they are as they were
RecordsAfterBufferResetAliased(records) ==
    [n \in DOMAIN records |-> [records[n] EXCEPT !.data = 0, !.RequestSize = records[n].pk]]
RecordsAfterBufferReset(records) == records

\* Next(), up to the loop: the end-marker when index >= metricsCount,
\* else fresh locals and a reset stream
GenNextBegin ==
    /\ gpc = "idle"
    /\ IF g.index >= g.metricsCount
       THEN /\ g_ret' = EndMarker
            /\ g_ended' = TRUE
            /\ gpc' = "idle"
            /\ UNCHANGED <<nx, stream, yielded>>
       ELSE /\ nx' = [index |-> g.index, recordMetricCount |-> 0,
                      est |-> createGZipSizeEstimator]
            /\ stream' = StreamReset
            /\ yielded' = RecordsAfterBufferReset(yielded)
            /\ gpc' = "scan"
            /\ UNCHANGED <<g_ret, g_ended>>
    /\ UNCHANGED <<maxRecordSize, pkLen, pkCalls, serialized, reserialized, g, dropped, serFailed>>

\* g.serializer.Serialize(metric) at the head of the loop body, for the
\* metric at the given position
Serialize(index) ==
    /\ serialized' = serialized \cup {index}
    /\ reserialized' = IF index \in serialized THEN reserialized \cup {index} ELSE reserialized

\* the locals of Next() after the serializer failed on a metric: continue
AfterSerializeFailsCounts(locals) ==
    [locals EXCEPT !.index = @ + 1, !.recordMetricCount = @ + 1]
AfterSerializeFails(locals) == [locals EXCEPT !.index = @ + 1]

\* one pass of the loop body of Next() over g.metrics[index] (0-based index)
GenScanSerializeFails ==
    /\ gpc = "scan"
    /\ nx.index < g.metricsCount
    /\ ~g.metrics[nx.index + 1].ok
    /\ serFailed' = serFailed \cup {nx.index}
    /\ nx' = AfterSerializeFails(nx)
    /\ Serialize(nx.index)
    /\ UNCHANGED <<maxRecordSize, pkLen, pkCalls, g, stream, gpc, g_ret, yielded, dropped, g_ended>>
    /\ UNCHANGED <<setVars, cfgVars, conVars, estVars, w_metrics, outVars>>

\* the metric passes the first admission test: it is written
GenScanWrite ==
    /\ gpc = "scan"
    /\ nx.index < g.metricsCount
    /\ LET metric == g.metrics[nx.index + 1]
       IN  /\ metric.ok
           /\ ~(MaxPotentialSizeWith(nx.est, metric.size) > maxRecordSize)
           /\ stream' = WriterWrite(stream, nx.index, metric)
           /\ nx' = [index |-> nx.index + 1,
                     recordMetricCount |-> nx.recordMetricCount + 1,
                     est |-> RecordBytes(nx.est, metric.size)]
    /\ Serialize(nx.index)
    /\ UNCHANGED <<maxRecordSize, pkLen, pkCalls, g, gpc, g_ret, yielded, dropped, serFailed, g_ended>>
    /\ UNCHANGED <<setVars, cfgVars, conVars, estVars, w_metrics, outVars>>

\* the first test fails; after Flush and Commit the metric fits: it is written
GenScanFlushWrite ==
    /\ gpc = "scan"
    /\ nx.index < g.metricsCount
    /\ LET metric == g.metrics[nx.index + 1]
           flushed == WriterFlush(stream)
           est2 == Commit(nx.est, flushed.buf)
       IN  /\ metric.ok
           /\ MaxPotentialSizeWith(nx.est, metric.size) > maxRecordSize
           /\ ~(MaxPotentialSizeWith(est2, metric.size) > maxRecordSize)
           /\ stream' = WriterWrite(flushed, nx.index, metric)
           /\ nx' = [index |-> nx.index + 1,
                     recordMetricCount |-> nx.recordMetricCount + 1,
                     est |-> RecordBytes(est2, metric.size)]
    /\ Serialize(nx.index)
    /\ UNCHANGED <<maxRecordSize, pkLen, pkCalls, g, gpc, g_ret, yielded, dropped, serFailed, g_ended>>
    /\ UNCHANGED <<setVars, cfgVars, conVars, estVars, w_metrics, outVars>>

\* both tests fail and the record is empty: the metric is dropped
GenScanDrop ==
    /\ gpc = "scan"
    /\ nx.index < g.metricsCount
    /\ LET metric == g.metrics[nx.index + 1]
           flushed == WriterFlush(stream)
           est2 == Commit(nx.est, flushed.buf)
       IN  /\ metric.ok
           /\ MaxPotentialSizeWith(nx.est, metric.size) > maxRecordSize
           /\ MaxPotentialSizeWith(est2, metric.size) > maxRecordSize
           /\ nx.recordMetricCount = 0
           /\ stream' = flushed
           /\ nx' = [nx EXCEPT !.index = @ + 1, !.est = est2]
           /\ dropped' = dropped \cup {nx.index}
    /\ Serialize(nx.index)
    /\ UNCHANGED <<maxRecordSize, pkLen, pkCalls, g, gpc, g_ret, yielded, serFailed, g_ended>>
    /\ UNCHANGED <<setVars, cfgVars, conVars, estVars, w_metrics, outVars>>

\* both tests fail and the record holds metrics: the record is yielded
GenScanYield ==
    /\ gpc = "scan"
    /\ nx.index < g.metricsCount
    /\ LET metric == g.metrics[nx.index + 1]
           flushed == WriterFlush(stream)
           est2 == Commit(nx.est, flushed.buf)
           record == yieldRecord(flushed, nx.recordMetricCount)
       IN  /\ metric.ok
           /\ MaxPotentialSizeWith(nx.est, metric.size) > maxRecordSize
           /\ MaxPotentialSizeWith(est2, metric.size) > maxRecordSize
           /\ nx.recordMetricCount # 0
           /\ g' = [g EXCEPT !.index = YieldIndex(nx.index)]
           /\ stream' = WriterClose(flushed)
           /\ g_ret' = RecordResult(record)
           /\ yielded' = Append(yielded, record)
    /\ nx' = NoLocals
    /\ gpc' = "idle"
    /\ pkCalls' = KeyCallsAfterYield(pkCalls)
    /\ Serialize(nx.index)
    /\ UNCHANGED <<maxRecordSize, pkLen, dropped, serFailed, g_ended>>
    /\ UNCHANGED <<setVars, cfgVars, conVars, estVars, w_metrics, outVars>>

\* after the loop: a record is yielded if metrics were written
EndYieldsAlways(recordMetricCount) == TRUE
EndYields(recordMetricCount) == recordMetricCount > 0

\* Next(), after the loop
GenNextEnd ==
    /\ gpc = "scan"
    /\ ~(nx.index < g.metricsCount)
    /\ IF EndYields(nx.recordMetricCount)
       THEN LET record == yieldRecord(stream, nx.recordMetricCount)
            IN  /\ g' = [g EXCEPT !.index = EndIndex(nx.index)]
                /\ stream' = WriterClose(stream)
                /\ g_ret' = RecordResult(record)
                /\ yielded' = Append(yielded, record)
                /\ pkCalls' = KeyCallsAfterYield(pkCalls)
                /\ UNCHANGED g_ended
       ELSE /\ g_ret' = EndMarker
            /\ g_ended' = TRUE
            /\ UNCHANGED <<g, stream, yielded, pkCalls>>
    /\ nx' = NoLocals
    /\ gpc' = "idle"
    /\ UNCHANGED <<maxRecordSize, pkLen, serialized, reserialized, dropped, serFailed>>
    /\ UNCHANGED <<setVars, cfgVars, conVars, estVars, w_metrics, outVars>>

\* The writer is a gzip.Writer over a bytes.Buffer; Flush, Write and Close
\* return an error value, which Next() hands to its caller.  The three
\* actions below are Next() returning on such an error.

\* g.writer.Flush() fails after the first admission test failed
GenFlushFails ==
    /\ gpc = "scan"
    /\ nx.index < g.metricsCount
    /\ LET metric == g.metrics[nx.index + 1]
       IN  /\ metric.ok
           /\ MaxPotentialSizeWith(nx.est, metric.size) > maxRecordSize
    /\ g_ret' = ErrorResult
    /\ nx' = NoLocals
    /\ gpc' = "idle"
    /\ Serialize(nx.index)
    /\ UNCHANGED <<maxRecordSize, pkLen, pkCalls, g, stream, yielded, dropped, serFailed, g_ended>>
    /\ UNCHANGED <<setVars, cfgVars, conVars, estVars, w_metrics, outVars>>

\* g.writer.Write(bytes) fails for a metric that passed an admission test
GenWriteFails ==
    /\ gpc = "scan"
    /\ nx.index < g.metricsCount
    /\ LET metric == g.metrics[nx.index + 1]
           flushed == WriterFlush(stream)
           est2 == Commit(nx.est, flushed.buf)
       IN  /\ metric.ok
           /\ IF MaxPotentialSizeWith(nx.est, metric.size) > maxRecordSize
              THEN /\ ~(MaxPotentialSizeWith(est2, metric.size) > maxRecordSize)
                   /\ stream' = flushed
              ELSE stream' = stream
    /\ g_ret' = ErrorResult
    /\ nx' = NoLocals
    /\ gpc' = "idle"
    /\ Serialize(nx.index)
    /\ UNCHANGED <<maxRecordSize, pkLen, pkCalls, g, yielded, dropped, serFailed, g_ended>>
    /\ UNCHANGED <<setVars, cfgVars, conVars, estVars, w_metrics, outVars>>

\* g.writer.Close() fails in yieldRecord, after g.index has been set
GenCloseFails ==
    /\ gpc = "scan"
    /\ IF nx.index < g.metricsCount
       THEN LET metric == g.metrics[nx.index + 1]
                flushed == WriterFlush(stream)
                est2 == Commit(nx.est, flushed.buf)
            IN  /\ metric.ok
                /\ MaxPotentialSizeWith(nx.est, metric.size) > maxRecordSize
                /\ MaxPotentialSizeWith(est2, metric.size) > maxRecordSize
                /\ nx.recordMetricCount # 0
                /\ g' = [g EXCEPT !.index = YieldIndex(nx.index)]
                /\ stream' = flushed
       ELSE /\ nx.recordMetricCount > 0
            /\ g' = [g EXCEPT !.index = EndIndex(nx.index)]
            /\ stream' = stream
    /\ g_ret' = ErrorResult
    /\ nx' = NoLocals
    /\ gpc' = "idle"
    /\ IF nx.index < g.metricsCount
       THEN Serialize(nx.index)
       ELSE UNCHANGED <<serialized, reserialized>>
    /\ UNCHANGED <<maxRecordSize, pkLen, pkCalls, yielded, dropped, serFailed, g_ended>>
    /\ UNCHANGED <<setVars, cfgVars, conVars, estVars, w_metrics, outVars>>

(***************************************************************************)
(* kinesisRecordSet                                                        *)
(***************************************************************************)
createKinesisRecordSet(records) ==
    [count |-> Len(records), index |-> 0, records |-> records]

\* the set after Next(): the index moves on unless the records are used up
SetAfterNextWraps(set) ==
    IF set.index >= set.count THEN [set EXCEPT !.index = 0] ELSE [set EXCEPT !.index = @ + 1]
SetAfterNext(set) ==
    IF set.index >= set.count THEN set ELSE [set EXCEPT !.index = @ + 1]

\* what Next() returns
SetNextResultFirst(set) ==
    IF set.index >= set.count THEN EndMarker ELSE RecordResult(set.records[1])
SetNextResult(set) ==
    IF set.index >= set.count THEN EndMarker ELSE RecordResult(set.records[set.index + 1])

\* Next() of the set
SetNext ==
    /\ s' = SetAfterNext(s)
    /\ s_ret' = SetNextResult(s)
    /\ s_ended' = (s_ended \/ SetNextResult(s) = EndMarker)
    /\ s_out' = IF SetNextResult(s).kind = "record"
                THEN Append(s_out, SetNextResult(s).record)
                ELSE s_out

(***************************************************************************)
(* A caller that drives the iterators itself, in any order.                *)
(***************************************************************************)
\* The caller works on the generator first (any number of Reset and Next),
\* then on record sets made of the records of its last run.
HarnessReset ==
    /\ pc = "harness"
    /\ gpc = "idle"
    /\ s.count = 0
    /\ s_ret = NoResult
    /\ \E metrics \in MetricSeqs : GenReset(metrics)
    /\ UNCHANGED <<maxRecordSize, pkLen, stream, nx, gpc, setVars, cfgVars, conVars, estVars, w_metrics, outVars>>

\* Next(); after an error of Next() the caller goes on with a Reset only
HarnessNext ==
    /\ pc = "harness"
    /\ g_ret # ErrorResult
    /\ GenNextBegin
    /\ UNCHANGED <<setVars, cfgVars, conVars, estVars, w_metrics, outVars>>

\* createKinesisRecordSet over records the generator has yielded, once
\* the generator has returned the end-marker
HarnessCreateSet ==
    /\ pc = "harness"
    /\ gpc = "idle"
    /\ g_ended
    /\ \E n \in 0..Len(yielded) :
         s' = createKinesisRecordSet(SubSeq(yielded, 1, n))
    /\ s_ret' = NoResult
    /\ s_ended' = FALSE
    /\ s_out' = <<>>
    /\ UNCHANGED <<genVars, cfgVars, conVars, estVars, w_metrics, outVars>>

HarnessSetNext ==
    /\ pc = "harness"
    /\ gpc = "idle"
    /\ g_ended
    /\ SetNext
    /\ UNCHANGED <<genVars, cfgVars, conVars, estVars, w_metrics, outVars>>

(***************************************************************************)
(* d2lKinesisOutput                                                        *)
(***************************************************************************)
\* What k.svc.PutRecords may answer for a request of n records: an error,
\* or a response with an ErrorCode (TRUE) or none (FALSE) for each record
\* and FailedRecordCount = the number of records with an ErrorCode.
TransportError == [err |-> TRUE, codes |-> <<>>]
Response(codes) == [err |-> FALSE, codes |-> codes]
Outcomes(n) == {TransportError} \cup { Response(c) : c \in [1..n -> BOOLEAN] }

FailedRecordCount(outcome) == Cardinality({ i \in DOMAIN outcome.codes : outcome.codes[i] })

\* the records of the request whose response entry has an ErrorCode, in order
WithErrorCodeWholeRequest(records, codes) == records
WithErrorCode(records, codes) ==
    LET F[i \in 0..Len(records)] ==
            IF i = 0 THEN <<>>
            ELSE IF codes[i] THEN Append(F[i - 1], records[i]) ELSE F[i - 1]
    IN  F[Len(records)]

\* putRecords(records): the records that failed
putRecordsDropsOnError(records, outcome) ==
    IF outcome.err
    THEN <<>>
    ELSE IF FailedRecordCount(outcome) > 0
         THEN WithErrorCode(records, outcome.codes)
         ELSE <<>>
putRecords(records, outcome) ==
    IF outcome.err
    THEN records
    ELSE IF FailedRecordCount(outcome) > 0
         THEN WithErrorCode(records, outcome.codes)
         ELSE <<>>

RECURSIVE SumMetrics(_)
SumMetrics(records) ==
    IF records = <<>> THEN 0 ELSE Head(records).Metrics + SumMetrics(Tail(records))

\* the iterator the running pass reads, its last result
Result == IF source = "gen" THEN g_ret ELSE s_ret
Returned == pc = "wait" /\ gpc = "idle"

\* putRecordBatches, before the loop
StartPass ==
    /\ batchRecordCount' = 0
    /\ batchRequestSize' = 0
    /\ batch' = <<>>
    /\ allFailedRecords' = <<>>
    /\ pulled' = <<>>

\* what Write(metrics) with len(metrics) = 0 does to the generator
WriteEmptyGeneratorResets == GenReset(<<>>)
WriteEmptyGenerator ==
    UNCHANGED <<g, g_ret, yielded, dropped, serFailed, serialized, reserialized, g_ended,
                pkCalls>>

\* Write(metrics) with len(metrics) = 0
WriteEmpty ==
    /\ pc = "idle"
    /\ w_metrics' = <<>>
    /\ WriteEmptyGenerator
    /\ w_ret' = "nil"
    /\ pc' = "returned"
    /\ UNCHANGED <<maxRecordSize, pkLen, stream, nx, gpc>>
    /\ UNCHANGED <<setVars, cfgVars, conVars, estVars, attempt, source, passVars, calls, pulled, errorLog>>

\* Write(metrics): Reset the generator, enter putRecordBatchesWithRetry and
\* its first putRecordBatches
Write ==
    /\ pc = "idle"
    /\ \E metrics \in MetricSeqs \ { <<>> } :
         /\ w_metrics' = metrics
         /\ GenReset(metrics)
    /\ attempt' = 0
    /\ source' = "gen"
    /\ StartPass
    /\ pc' = "pull"
    /\ UNCHANGED <<maxRecordSize, pkLen, stream, nx, gpc, setVars, cfgVars, conVars, estVars, w_ret, calls, errorLog>>

\* recordIterator.Next() on the generator
DrainPullGen ==
    /\ pc = "pull"
    /\ source = "gen"
    /\ GenNextBegin
    /\ pc' = "wait"
    /\ UNCHANGED <<setVars, cfgVars, conVars, estVars, w_metrics, attempt, source, passVars, w_ret, calls, pulled, errorLog>>

\* recordIterator.Next() on a record set
DrainPullSet ==
    /\ pc = "pull"
    /\ source = "set"
    /\ SetNext
    /\ pc' = "wait"
    /\ UNCHANGED <<genVars, cfgVars, conVars, estVars, w_metrics, attempt, source, passVars, w_ret, calls, pulled, errorLog>>

\* allFailedRecords = append(allFailedRecords, failedRecords...)
AppendFailedReplaces(all, failedRecords) == failedRecords
AppendFailed(all, failedRecords) == all \o failedRecords

\* the call of k.svc.PutRecords within putRecords(batch), and its result
\* appended to allFailedRecords
Deliver(outcome) ==
    /\ calls' = Append(calls, [pass |-> attempt, records |-> batch, outcome |-> outcome])
    /\ allFailedRecords' = AppendFailed(allFailedRecords, putRecords(batch, outcome))

\* after a record is added: the batch is put once it holds maxRecordsPerRequest
AfterAddEarly(count) == IF count >= 1 THEN "countflush" ELSE "pull"
AfterAddExceeds(count) == IF count > maxRecordsPerRequest THEN "countflush" ELSE "pull"
AfterAdd(count) == IF count >= maxRecordsPerRequest THEN "countflush" ELSE "pull"

\* the test before a record is added: the batch with it exceeds maxRequestSize
ExceedsRequestSizeAlone(batchSize, recordSize) == recordSize > maxRequestSize
ExceedsRequestSizeBefore(batchSize, recordSize) == batchSize > maxRequestSize
ExceedsRequestSize(batchSize, recordSize) == batchSize + recordSize > maxRequestSize

\* a record arrives that does not fit the request size: the batch is put,
\* then the record starts the next batch
DrainRecordFlush ==
    /\ Returned
    /\ Result.kind = "record"
    /\ LET record == Result.record
       IN  /\ ExceedsRequestSize(batchRequestSize, record.RequestSize)
           /\ \E outcome \in Outcomes(Len(batch)) : Deliver(outcome)
           /\ batchRecordCount' = 0 + 1
           /\ batchRequestSize' = 0 + record.RequestSize
           /\ batch' = <<record>>
           /\ pulled' = Append(pulled, record)
           /\ pc' = AfterAdd(0 + 1)
    /\ UNCHANGED <<genVars, setVars, cfgVars, conVars, estVars, w_metrics, attempt, source, w_ret, errorLog>>

\* a record arrives that fits the request size: it is added to the batch
DrainRecordAdd ==
    /\ Returned
    /\ Result.kind = "record"
    /\ LET record == Result.record
       IN  /\ ~ExceedsRequestSize(batchRequestSize, record.RequestSize)
           /\ batchRecordCount' = batchRecordCount + 1
           /\ batchRequestSize' = batchRequestSize + record.RequestSize
           /\ batch' = Append(batch, record)
           /\ pulled' = Append(pulled, record)
           /\ pc' = AfterAdd(batchRecordCount + 1)
    /\ UNCHANGED <<genVars, setVars, cfgVars, conVars, estVars, w_metrics, attempt, source, allFailedRecords, w_ret,
                   calls, errorLog>>

\* the batch has reached maxRecordsPerRequest: it is put
DrainCountFlush ==
    /\ pc = "countflush"
    /\ \E outcome \in Outcomes(Len(batch)) : Deliver(outcome)
    /\ batchRecordCount' = 0
    /\ batchRequestSize' = 0
    /\ batch' = <<>>
    /\ pc' = "pull"
    /\ UNCHANGED <<genVars, setVars, cfgVars, conVars, estVars, w_metrics, attempt, source, w_ret, pulled, errorLog>>

\* the end-marker arrives and records are left in the batch: it is put
DrainEndFlush ==
    /\ Returned
    /\ Result.kind = "end"
    /\ batchRecordCount > 0
    /\ \E outcome \in Outcomes(Len(batch)) : Deliver(outcome)
    /\ pc' = "passdone"
    /\ UNCHANGED <<genVars, setVars, cfgVars, conVars, estVars, w_metrics, attempt, source, batch, batchRecordCount,
                   batchRequestSize, w_ret, pulled, errorLog>>

\* the end-marker arrives and the batch is empty
DrainEndEmpty ==
    /\ Returned
    /\ Result.kind = "end"
    /\ ~(batchRecordCount > 0)
    /\ pc' = "passdone"
    /\ UNCHANGED <<genVars, setVars, cfgVars, conVars, estVars, w_metrics, attempt, source, passVars, w_ret, calls,
                   pulled, errorLog>>

\* the calls of PutRecords when putRecordBatches returns on recordErr: the
\* batch in hand is not put
CallsOnErrorPutsBatch == Append(calls, [pass |-> attempt, records |-> batch,
                                        outcome |-> TransportError])
CallsOnError == calls

\* recordIterator.Next() returned an error: putRecordBatches returns it, and
\* putRecordBatchesWithRetry and Write return it
DrainError ==
    /\ Returned
    /\ Result.kind = "error"
    /\ calls' = CallsOnError
    /\ w_ret' = "err"
    /\ pc' = "returned"
    /\ UNCHANGED <<genVars, setVars, cfgVars, conVars, estVars, w_metrics, attempt, source, passVars, pulled, errorLog>>

\* putRecordBatchesWithRetry: no record failed
WriteSucceeds ==
    /\ pc = "passdone"
    /\ Len(allFailedRecords) = 0
    /\ w_ret' = "nil"
    /\ pc' = "returned"
    /\ UNCHANGED <<genVars, setVars, cfgVars, conVars, estVars, w_metrics, attempt, source, passVars, calls, pulled, errorLog>>

\* attempt++; if attempt > k.MaxRecordRetries (the argument is the
\* incremented attempt)
RetriesExhaustedLate(n) == n > MaxRecordRetries + 1
RetriesExhaustedEarly(n) == n >= MaxRecordRetries
RetriesExhausted(n) == n > MaxRecordRetries

\* dropped: the sum of record.Metrics over failedRecords
DroppedMetricsCountsRecords(failedRecords) == Len(failedRecords)
DroppedMetrics(failedRecords) == SumMetrics(failedRecords)

\* what putRecordBatchesWithRetry returns after the Errorf
DropsReturnErr == "err"
DropsReturn == "nil"

\* the records the next pass reads: createKinesisRecordSet(failedRecords)
RetryRecordsWholePass(failedRecords) == pulled
RetryRecords(failedRecords) == failedRecords

\* putRecordBatchesWithRetry: records failed and the attempts are used up
WriteDrops ==
    /\ pc = "passdone"
    /\ Len(allFailedRecords) # 0
    /\ RetriesExhausted(attempt + 1)
    /\ attempt' = attempt + 1
    /\ errorLog' = Append(errorLog, [failedCount |-> Len(allFailedRecords),
                                     attempt |-> attempt + 1,
                                     dropped |-> DroppedMetrics(allFailedRecords)])
    /\ w_ret' = DropsReturn
    /\ pc' = "returned"
    /\ UNCHANGED <<genVars, setVars, cfgVars, conVars, estVars, w_metrics, source, passVars, calls, pulled>>

\* putRecordBatchesWithRetry: records failed, the next pass reads them from a set
WriteRetries ==
    /\ pc = "passdone"
    /\ Len(allFailedRecords) # 0
    /\ ~RetriesExhausted(attempt + 1)
    /\ attempt' = attempt + 1
    /\ s' = createKinesisRecordSet(RetryRecords(allFailedRecords))
    /\ s_ret' = NoResult
    /\ s_ended' = FALSE
    /\ s_out' = <<>>
    /\ source' = "set"
    /\ StartPass
    /\ pc' = "pull"
    /\ UNCHANGED <<genVars, cfgVars, conVars, estVars, w_metrics, w_ret, calls, errorLog>>

(***************************************************************************)
(* Specifications.                                                         *)
(***************************************************************************)
PartitionKeyLens == {24}            \* generateRandomPartitionKey: base64 of 16 bytes
MaxRecordRetriesSet == {0, 1}
\* maxRecordsPerRequest and maxRequestSize: the limits of init() (500 records,
\* 5 MiB) and limits small enough for the records of MetricKinds to reach
awsMaxRecordsPerRequest == 500
awsMaxRequestSize == 5242880
Limits(records, size) == [maxRecordsPerRequest |-> records, maxRequestSize |-> size]
OutputLimits ==
    { Limits(awsMaxRecordsPerRequest, awsMaxRequestSize),
      Limits(1, awsMaxRequestSize),
      Limits(2, awsMaxRequestSize),
      Limits(2, 1500),
      Limits(2, 200) }
\* k.MaxRecordSize, which Connect hands to the generator
OutputMaxRecordSizes == {1023}

\* the state after createGZipKinesisRecordGenerator and the construction of
\* the output
InitCommon ==
    /\ pkLen \in PartitionKeyLens
    /\ pkCalls = 0
    /\ g = [index |-> 0, metricsCount |-> 0, metrics |-> <<>>]
    /\ stream = StreamReset
    /\ nx = NoLocals
    /\ gpc = "idle"
    /\ g_ret = NoResult
    /\ yielded = <<>>
    /\ dropped = {}
    /\ serFailed = {}
    /\ serialized = {}
    /\ reserialized = {}
    /\ g_ended = FALSE
    /\ s = createKinesisRecordSet(<<>>)
    /\ s_ret = NoResult
    /\ s_ended = FALSE
    /\ s_out = <<>>
    /\ attempt = 0
    /\ source = "gen"
    /\ batch = <<>>
    /\ batchRecordCount = 0
    /\ batchRequestSize = 0
    /\ allFailedRecords = <<>>
    /\ w_ret = "none"
    /\ calls = <<>>
    /\ pulled = <<>>
    /\ errorLog = <<>>
    /\ w_metrics = <<>>
    /\ e = createGZipSizeEstimator
    /\ e_ret = NoCall

\* the fields of the output after a Connect that returned nil
Connected ==
    /\ StreamName = "stream"
    /\ MaxRecordSize = maxRecordSize
    /\ recordGenerator = "created"
    /\ c_ret = "nil"

\* the output, written to once
Init ==
    /\ InitCommon
    /\ maxRecordSize \in OutputMaxRecordSizes
    /\ Connected
    /\ MaxRecordRetries \in MaxRecordRetriesSet
    /\ \E limits \in OutputLimits :
         /\ maxRecordsPerRequest = limits.maxRecordsPerRequest
         /\ maxRequestSize = limits.maxRequestSize
    /\ pc = "idle"

Next ==
    \/ WriteEmpty
    \/ Write
    \/ DrainPullGen
    \/ DrainPullSet
    \/ GenScanSerializeFails
    \/ GenScanWrite
    \/ GenScanFlushWrite
    \/ GenScanDrop
    \/ GenScanYield
    \/ GenNextEnd
    \/ DrainRecordFlush
    \/ DrainRecordAdd
    \/ DrainCountFlush
    \/ DrainEndFlush
    \/ DrainEndEmpty
    \/ WriteSucceeds
    \/ WriteDrops
    \/ WriteRetries

Spec == Init /\ [][Next]_vars

\* the output with retries to spare: up to two retry passes, requests of
\* two records at most that the request size can cut
RetryMaxRecordRetriesSet == {0, 2}
RetryLimits == { Limits(2, 1500) }
InitRetry ==
    /\ InitCommon
    /\ maxRecordSize \in OutputMaxRecordSizes
    /\ Connected
    /\ MaxRecordRetries \in RetryMaxRecordRetriesSet
    /\ \E limits \in RetryLimits :
         /\ maxRecordsPerRequest = limits.maxRecordsPerRequest
         /\ maxRequestSize = limits.maxRequestSize
    /\ pc = "idle"

SpecRetry == InitRetry /\ [][Next]_vars

\* Write runs to its return: no step of it waits for anything but the
\* answer of PutRecords, which is an answer or an error
SpecRetryFair == SpecRetry /\ WF_vars(Next)

\* the output over a writer whose Flush, Write and Close may return an error
NextFault ==
    \/ Next
    \/ GenFlushFails
    \/ GenWriteFails
    \/ GenCloseFails
    \/ DrainError

SpecFault == Init /\ [][NextFault]_vars

\* the generator and the record set, driven directly
InitGen ==
    /\ InitCommon
    /\ maxRecordSize \in MaxRecordSizes
    /\ Connected
    /\ MaxRecordRetries = 0
    /\ maxRecordsPerRequest = 1
    /\ maxRequestSize = 0
    /\ pc = "harness"

NextGen ==
    \/ HarnessReset
    \/ HarnessNext
    \/ HarnessCreateSet
    \/ HarnessSetNext
    \/ GenScanSerializeFails
    \/ GenScanWrite
    \/ GenScanFlushWrite
    \/ GenScanDrop
    \/ GenScanYield
    \/ GenNextEnd

SpecGen == InitGen /\ [][NextGen]_vars

\* the generator driven directly, over a writer whose Flush, Write and
\* Close may return an error
InitGenFault ==
    /\ InitCommon
    /\ maxRecordSize \in OutputMaxRecordSizes
    /\ Connected
    /\ MaxRecordRetries = 0
    /\ maxRecordsPerRequest = 1
    /\ maxRequestSize = 0
    /\ pc = "harness"

NextGenFault ==
    \/ HarnessReset
    \/ HarnessNext
    \/ GenScanSerializeFails
    \/ GenScanWrite
    \/ GenScanFlushWrite
    \/ GenScanDrop
    \/ GenScanYield
    \/ GenNextEnd
    \/ GenFlushFails
    \/ GenWriteFails
    \/ GenCloseFails

SpecGenFault == InitGenFault /\ [][NextGenFault]_vars

(***************************************************************************)
(* A gZipSizeEstimator driven directly                                     *)
(***************************************************************************)
\* byte counts handed to RecordBytes and MaxPotentialSizeWith, buffer lengths
\* handed to Commit
EstimatorBytes == {0, 1000, estimatorBlockSize - 1, estimatorBlockSize}
EstimatorBufferLens == {15, 1020}

EstCreate ==
    /\ pc = "estimator"
    /\ e' = createGZipSizeEstimator
    /\ e_ret' = Call("createGZipSizeEstimator", e, 0, 0)
    /\ UNCHANGED <<genVars, setVars, cfgVars, conVars, w_metrics, outVars>>

EstRecordBytes ==
    /\ pc = "estimator"
    /\ \E bytes \in EstimatorBytes :
         /\ e.bytesPending + bytes <= MaxPending
         /\ e' = RecordBytes(e, bytes)
         /\ e_ret' = Call("RecordBytes", e, bytes, 0)
    /\ UNCHANGED <<genVars, setVars, cfgVars, conVars, w_metrics, outVars>>

EstCommit ==
    /\ pc = "estimator"
    /\ \E bytes \in EstimatorBufferLens :
         /\ e' = Commit(e, bytes)
         /\ e_ret' = Call("Commit", e, bytes, 0)
    /\ UNCHANGED <<genVars, setVars, cfgVars, conVars, w_metrics, outVars>>

EstMaxPotentialSizeWith ==
    /\ pc = "estimator"
    /\ \E additionalBytes \in EstimatorBytes :
         e_ret' = Call("MaxPotentialSizeWith", e, additionalBytes,
                       MaxPotentialSizeWith(e, additionalBytes))
    /\ e' = e
    /\ UNCHANGED <<genVars, setVars, cfgVars, conVars, w_metrics, outVars>>

InitEstimator ==
    /\ InitCommon
    /\ maxRecordSize \in OutputMaxRecordSizes
    /\ Connected
    /\ MaxRecordRetries = 0
    /\ maxRecordsPerRequest = 1
    /\ maxRequestSize = 0
    /\ pc = "estimator"

NextEstimator ==
    \/ EstCreate
    \/ EstRecordBytes
    \/ EstCommit
    \/ EstMaxPotentialSizeWith

SpecEstimator == InitEstimator /\ [][NextEstimator]_vars

(***************************************************************************)
(* Write called again on the same output                                   *)
(***************************************************************************)
\* Write has returned and the caller is about to call it again: the locals of
\* the call that returned are gone, the generator of the output stays as that
\* call left it
WriteAgain ==
    /\ pc = "returned"
    /\ pc' = "idle"
    /\ w_ret' = "none"
    /\ attempt' = 0
    /\ source' = "gen"
    /\ batch' = <<>>
    /\ batchRecordCount' = 0
    /\ batchRequestSize' = 0
    /\ allFailedRecords' = <<>>
    /\ s' = createKinesisRecordSet(<<>>)
    /\ s_ret' = NoResult
    /\ s_ended' = FALSE
    /\ s_out' = <<>>
    /\ calls' = <<>>
    /\ pulled' = <<>>
    /\ errorLog' = <<>>
    /\ UNCHANGED <<genVars, cfgVars, conVars, estVars, w_metrics>>

NextAgain == Next \/ WriteAgain

SpecAgain == Init /\ [][NextAgain]_vars

(***************************************************************************)
(* Two Write calls that overlap                                            *)
(***************************************************************************)
\* While a Write is running, another goroutine calls Write(metrics) on the
\* same output and gets as far as k.recordGenerator.Reset(metrics): the
\* output has one generator and Write takes no lock.  The other call is
\* followed no further than its Reset; one such call overlaps a Write.
OtherMetricSeqs == { <<metric>> : metric \in MetricKinds }

OtherWriteReset ==
    /\ pc \in {"pull", "wait", "countflush", "passdone"}
    /\ g.metrics = w_metrics
    /\ \E metrics \in OtherMetricSeqs \ { w_metrics } :
         g' = [index |-> ResetIndex, metricsCount |-> Len(metrics), metrics |-> metrics]
    /\ UNCHANGED <<maxRecordSize, pkLen, pkCalls, stream, nx, gpc, g_ret, yielded, dropped, serFailed,
                   serialized, reserialized, g_ended>>
    /\ UNCHANGED <<setVars, cfgVars, conVars, estVars, w_metrics, outVars>>

NextOverlap == Next \/ OtherWriteReset

OverlapMaxRecordRetriesSet == {1}

InitOverlap ==
    /\ InitCommon
    /\ maxRecordSize \in OutputMaxRecordSizes
    /\ Connected
    /\ MaxRecordRetries \in OverlapMaxRecordRetriesSet
    /\ \E limits \in RetryLimits :
         /\ maxRecordsPerRequest = limits.maxRecordsPerRequest
         /\ maxRequestSize = limits.maxRequestSize
    /\ pc = "idle"

SpecOverlap == InitOverlap /\ [][NextOverlap]_vars

(***************************************************************************)
(* Connect                                                                 *)
(***************************************************************************)
awsMaxRecordSize == 1048576
minMaxRecordSize == 1000

\* the error of the checks Connect makes on the configuration, "nil" if none
ConfigError ==
    IF StreamName = ""
    THEN "stream_name is required"
    ELSE IF MaxRecordRetries < 0
    THEN "max_record_retries must be greater than or equal to 0"
    ELSE IF MaxRecordSize < minMaxRecordSize
    THEN "max_record_size must be greater than 1000 bytes"
    ELSE IF MaxRecordSize > awsMaxRecordSize
    THEN "max_record_size must be less than or equal to the aws limit"
    ELSE "nil"

\* what svc.DescribeStreamSummary may return
DescribeStreamSummaryErrors == {"nil", "DescribeStreamSummary failed"}

\* Connect(): the checks, then the generator, then the call of the service
Connect ==
    /\ pc = "config"
    /\ IF ConfigError # "nil"
       THEN /\ c_ret' = ConfigError
            /\ pc' = "failed"
            /\ UNCHANGED <<recordGenerator, maxRecordSize>>
       ELSE /\ recordGenerator' = "created"
            /\ maxRecordSize' = MaxRecordSize
            /\ \E err \in DescribeStreamSummaryErrors :
                 /\ c_ret' = err
                 /\ pc' = IF err = "nil" THEN "idle" ELSE "failed"
    /\ UNCHANGED <<pkLen, pkCalls, g, stream, nx, gpc, g_ret, yielded, dropped, serFailed,
                   serialized, reserialized, g_ended>>
    /\ UNCHANGED <<setVars, cfgVars, StreamName, MaxRecordSize, estVars, w_metrics, attempt, source,
                   passVars, w_ret, calls, pulled, errorLog>>

\* the configurations Connect is called with
ConnectStreamNames == {"", "stream"}
ConnectMaxRecordRetries == {-1, 1}
ConnectMaxRecordSizes == {999, 1000, 1023, awsMaxRecordSize, awsMaxRecordSize + 1}
ConnectLimits == { Limits(2, awsMaxRequestSize), Limits(2, 1500) }

\* the output as init() and the configuration make it, before Connect
InitConnect ==
    /\ InitCommon
    /\ maxRecordSize = 0
    /\ recordGenerator = "nil"
    /\ c_ret = "none"
    /\ StreamName \in ConnectStreamNames
    /\ MaxRecordSize \in ConnectMaxRecordSizes
    /\ MaxRecordRetries \in ConnectMaxRecordRetries
    /\ \E limits \in ConnectLimits :
         /\ maxRecordsPerRequest = limits.maxRecordsPerRequest
         /\ maxRequestSize = limits.maxRequestSize
    /\ pc = "config"

NextConnect == Connect \/ Next

SpecConnect == InitConnect /\ [][NextConnect]_vars

(***************************************************************************)
(* Properties of the record generator and of the record set (SpecGen).     *)
(***************************************************************************)
\* positions (0-based, as g.index counts) of the metrics handed to Reset
Positions == 0..(g.metricsCount - 1)
MetricAt(i) == g.metrics[i + 1]

\* positions of the metrics whose bytes are in some yielded record
InRecords == { i \in Positions : \E n \in DOMAIN yielded :
                                   \E j \in DOMAIN yielded[n].items : yielded[n].items[j] = i }

\* the metric fits a record that holds nothing else: the admission test of
\* a new estimator passes
FitsEmptyRecord(m) == MaxPotentialSizeWith(createGZipSizeEstimator, m.size) <= maxRecordSize

\* Next() has returned the end-marker and no call is running
AtEndMarker == gpc = "idle" /\ g_ended

\* C1: every record Next() returns has a payload of at most maxRecordSize
\* bytes, for a compressor within the gzip/deflate worst case.
C1_PayloadWithinMaxRecordSize ==
    \A n \in DOMAIN yielded : yielded[n].data <= maxRecordSize

\* C2: once Next() has returned the end-marker, the Metrics of the yielded
\* records sum to the number of metrics that serialized and were not
\* dropped as excessively large.
C2_MetricsSumToKeptMetrics ==
    AtEndMarker =>
        SumMetrics(yielded) =
            Cardinality({ i \in Positions : MetricAt(i).ok /\ i \notin dropped })

C2_Witness ==
    /\ AtEndMarker
    /\ Len(yielded) >= 2
    /\ serFailed # {}
    /\ SumMetrics(yielded) = 2

\* C3: a metric that cannot fit an empty record is in no yielded record,
\* and once the end-marker is returned every metric after it that fits an
\* empty record is in a yielded record.
C3_OversizedNeverBlocks ==
    /\ \A i \in Positions :
         (MetricAt(i).ok /\ ~FitsEmptyRecord(MetricAt(i))) => i \notin InRecords
    /\ AtEndMarker =>
         \A i \in Positions :
           ( /\ MetricAt(i).ok
             /\ FitsEmptyRecord(MetricAt(i))
             /\ \E j \in Positions : j < i /\ MetricAt(j).ok /\ ~FitsEmptyRecord(MetricAt(j)) )
           => i \in InRecords

\* C4: once Next() of the generator or of a record set has returned the
\* end-marker, every later Next() without a Reset returns the end-marker;
\* a generator Reset with no metrics returns the end-marker on every Next().
C4_EndMarkerForever ==
    /\ g_ended => g_ret = EndMarker
    /\ s_ended => s_ret = EndMarker
    /\ (g.metricsCount = 0 /\ g_ret # NoResult) => g_ret = EndMarker

\* the end-marker was returned by a set that has returned a record, and by
\* a generator that has yielded a record and dropped a metric since
C4_Witness ==
    /\ s_ended /\ s.count > 0 /\ s.index = s.count /\ s_ret = EndMarker
    /\ AtEndMarker /\ yielded # <<>> /\ dropped # {} /\ g_ret = EndMarker

\* C18: a record set made from a list of records returns those records,
\* unaltered, in their order and each once, then the end-marker; it never
\* returns an error.
C18_SetReplaysRecordsInOrder ==
    /\ s.records = SubSeq(yielded, 1, s.count)
    /\ s_out = SubSeq(s.records, 1, s.index)
    /\ s_ended => s_out = s.records
    /\ s_ret # ErrorResult
    /\ s_ret.kind = "record" => (s.index >= 1 /\ s_ret.record = s.records[s.index])
    /\ s_ret = EndMarker => s_ended

\* a set of two or more records was read to its end-marker
C18_Witness ==
    /\ s_ended
    /\ s_ret = EndMarker
    /\ s.count >= 2
    /\ s_out = SubSeq(yielded, 1, s.count)

\* C19: a record made by createKinesisRecord has RequestSize = len(Data) +
\* len(PartitionKey), so RequestSize >= len(Data), and carries the entry
\* (the bytes of the closed buffer, the partition key) and the metric count
\* it was given.
C19_RequestSizeIsDataPlusKey ==
    /\ \A n \in DOMAIN yielded :
         /\ yielded[n].RequestSize = yielded[n].data + yielded[n].pk
         /\ yielded[n].RequestSize >= yielded[n].data
         /\ yielded[n].pk = pkLen
         /\ yielded[n].Metrics = Len(yielded[n].items)
    /\ (gpc = "idle" /\ g_ret.kind = "record") =>
         /\ g_ret.record = yielded[Len(yielded)]
         /\ g_ret.record.data = stream.buf
         /\ g_ret.record.items = stream.items

\* Next() returned a record of two or more metrics
C19_Witness ==
    /\ gpc = "idle"
    /\ g_ret.kind = "record"
    /\ g_ret.record.Metrics >= 2
    /\ g_ret.record.RequestSize > g_ret.record.data
    /\ Len(yielded) >= 2

\* positions of the metrics the serializer accepts
Serializable == { i \in Positions : MetricAt(i).ok }

\* C20: a metric the serializer fails on is skipped: Next() returns no
\* error for it, it is in no record and counted in none, and the metrics
\* that serialize, before and after it, are each in a record (or dropped
\* as too large); when all of them fit an empty record, all are in records.
C20_SerializerFailureSkipsMetric ==
    /\ g_ret # ErrorResult
    /\ serFailed \subseteq (Positions \ Serializable)
    /\ serFailed \cap InRecords = {}
    /\ serFailed \cap dropped = {}
    /\ \A n \in DOMAIN yielded : yielded[n].Metrics = Len(yielded[n].items)
    /\ AtEndMarker =>
         /\ serFailed = Positions \ Serializable
         /\ InRecords \cup dropped = Serializable
         /\ (\A i \in Serializable : FitsEmptyRecord(MetricAt(i))) => InRecords = Serializable

\* the end-marker was returned for three metrics: the serializer failed on
\* the second, the first and the third are in records
C20_Witness ==
    /\ AtEndMarker
    /\ g.metricsCount = 3
    /\ serFailed = {1}
    /\ InRecords = {0, 2}
    /\ dropped = {}

\* C21: between one Reset and the next, g.serializer.Serialize is called
\* once for each metric: never twice, and once the end-marker is returned
\* every metric has been handed to it.
C21_SerializedOncePerMetric ==
    /\ reserialized = {}
    /\ AtEndMarker => serialized = Positions

\* What a generator just created yields for the given metrics: the loop of
\* Next() from the given position with the given locals and stream, as a
\* function.  k is the number of the record in the making.
RECURSIVE FreshLoop(_, _, _, _, _, _)
FreshLoop(metrics, index, recordMetricCount, est, st, k) ==
    IF ~(index < Len(metrics))
    THEN IF recordMetricCount > 0
         THEN [kind |-> "record", index |-> index + 1,
               record |-> createKinesisRecord(k, WriterClose(st).buf, WriterClose(st).items,
                                              pkLen, recordMetricCount)]
         ELSE [kind |-> "end"]
    ELSE LET metric == metrics[index + 1]
             flushed == WriterFlush(st)
             est2 == Commit(est, flushed.buf)
         IN  IF ~metric.ok
             THEN FreshLoop(metrics, index + 1, recordMetricCount, est, st, k)
             ELSE IF ~(MaxPotentialSizeWith(est, metric.size) > maxRecordSize)
             THEN FreshLoop(metrics, index + 1, recordMetricCount + 1,
                            RecordBytes(est, metric.size), WriterWrite(st, index, metric), k)
             ELSE IF ~(MaxPotentialSizeWith(est2, metric.size) > maxRecordSize)
             THEN FreshLoop(metrics, index + 1, recordMetricCount + 1,
                            RecordBytes(est2, metric.size), WriterWrite(flushed, index, metric), k)
             ELSE IF recordMetricCount = 0
             THEN FreshLoop(metrics, index + 1, 0, est2, flushed, k)
             ELSE [kind |-> "record", index |-> index,
                   record |-> createKinesisRecord(k, WriterClose(flushed).buf,
                                                  WriterClose(flushed).items, pkLen,
                                                  recordMetricCount)]

\* the records of successive Next() calls, from g.index = index, up to the
\* end-marker
RECURSIVE FreshRun(_, _, _)
FreshRun(metrics, index, records) ==
    IF index >= Len(metrics)
    THEN records
    ELSE LET r == FreshLoop(metrics, index, 0, createGZipSizeEstimator, StreamReset,
                            Len(records) + 1)
         IN  IF r.kind = "end" THEN records
             ELSE FreshRun(metrics, r.index, Append(records, r.record))

FreshRecords(metrics) == FreshRun(metrics, 0, <<>>)

\* C37: a Next() that returns an error of the stream's Write, Flush or Close
\* returns no record and leaves the saved index and the metrics as they
\* were, so that the Next() after it scans again from the same index.
C37_StreamErrorKeepsIndex ==
    [][ (gpc = "scan" /\ gpc' = "idle" /\ g_ret' = ErrorResult)
          => /\ g' = g
             /\ yielded' = yielded ]_vars

\* C22: whatever the generator did before a Reset(metrics) (nothing, part of
\* a sequence, a Next() that returned an error, a sequence read to its
\* end), the records it yields after the Reset are those a generator just
\* created yields for the same metrics, in the same order.
C22_ResetDiscardsState ==
    /\ Len(yielded) <= Len(FreshRecords(g.metrics))
    /\ yielded = SubSeq(FreshRecords(g.metrics), 1, Len(yielded))
    /\ AtEndMarker => yielded = FreshRecords(g.metrics)

\* a Reset with metrics has just acted on a generator whose stream still holds
\* what an earlier sequence wrote
C22_Witness ==
    /\ gpc = "idle"
    /\ g_ret = NoResult
    /\ g.metrics # <<>>
    /\ stream # StreamReset
    /\ yielded = <<>>

\* C28: at every point of a Next() call the length the buffer would have if
\* the stream were closed now (flushes made so far, the final block and the
\* trailer included) is at most bytesCommited + bytesPending
\* + 5 * (floor(bytesPending / 16383) + 1).
C28_EstimatorNeverUnderestimates ==
    gpc = "scan" =>
        WriterClose(stream).buf
            <= nx.est.bytesCommited + nx.est.bytesPending
                 + 5 * ((nx.est.bytesPending \div 16383) + 1)

\* positions of the metrics of a record, its last position, and the metric a
\* record was cut at: the first one after its last that serializes
ItemsOf(n) == { yielded[n].items[j] : j \in DOMAIN yielded[n].items }
LastOf(n) == yielded[n].items[Len(yielded[n].items)]
SerializableAfter(n) == { i \in Positions : i > LastOf(n) /\ MetricAt(i).ok }
CutAt(n) == CHOOSE c \in SerializableAfter(n) : \A i \in SerializableAfter(n) : c <= i

C30_PayloadIsItemsInInputOrder ==
    /\ \A n \in DOMAIN yielded :
         /\ Len(yielded[n].items) = yielded[n].Metrics
         /\ \A j \in DOMAIN yielded[n].items :
              /\ yielded[n].items[j] \in Positions
              /\ MetricAt(yielded[n].items[j]).ok
              /\ yielded[n].items[j] \notin (dropped \cup serFailed)
         /\ \A j, k \in DOMAIN yielded[n].items :
              j < k => yielded[n].items[j] < yielded[n].items[k]
    /\ \A n, m \in DOMAIN yielded :
         n < m => \A i \in ItemsOf(n), k \in ItemsOf(m) : i < k

\* two records, the first of two metrics or more
C30_Witness ==
    /\ Len(yielded) >= 2
    /\ yielded[1].Metrics >= 2
    /\ yielded[1].items[1] < yielded[1].items[2]
    /\ yielded[1].items[2] < yielded[2].items[1]

\* C31: a metric is dropped as excessively large only if it alone fails the
\* admission test of a new estimator (18 + its bytes + block overhead
\* > maxRecordSize); what was dropped or skipped before it in the same
\* Next(), and the flushes that caused, never make a fitting metric be
\* dropped.
C31_DroppedOnlyIfOversizedAlone ==
    \A i \in dropped : ~FitsEmptyRecord(MetricAt(i))

\* C32: whenever Next() has returned the end-marker the saved index is at
\* or past the number of metrics (also when the scan ended with no metric
\* written), so a later Next() returns at once and serializes nothing again.
C32_EndMarkerMeansExhausted ==
    (g_ret = EndMarker /\ gpc = "idle") =>
        /\ g.index >= g.metricsCount
        /\ reserialized = {}

\* the estimate for a metric of the given size on the stream once it is
\* flushed and its length committed: nothing pending but the metric
TightEstimate(st, size) == (WriterFlush(st).buf + 8) + size + 5 * ((size \div 16383) + 1)

\* C33: a record is cut or a metric dropped only after the admission test
\* failed, the stream was flushed and the buffer length committed
\* (bytesPending = 0), and the test failed again for the same metric; when
\* the second test passes the metric is written into the record in hand.
C33_CutOrDropOnlyOnTightEstimate ==
    [][ (gpc = "scan" /\ nx.index < g.metricsCount /\ MetricAt(nx.index).ok) =>
          LET size == MetricAt(nx.index).size
              failsFirst == MaxPotentialSizeWith(nx.est, size) > maxRecordSize
              failsTight == TightEstimate(stream, size) > maxRecordSize
          IN  IF failsFirst /\ failsTight
              THEN /\ stream' = WriterFlush(stream) \/ stream' = WriterClose(WriterFlush(stream))
                   /\ \/ /\ dropped' = dropped \cup {nx.index}
                         /\ yielded' = yielded
                         /\ nx'.est = [bytesCommited |-> WriterFlush(stream).buf + 8,
                                       bytesPending |-> 0]
                      \/ /\ Len(yielded') = Len(yielded) + 1
                         /\ dropped' = dropped
                         /\ g'.index = nx.index
              ELSE /\ dropped' = dropped
                   /\ yielded' = yielded
                   /\ stream'.items = Append(stream.items, nx.index)
                   /\ nx'.recordMetricCount = nx.recordMetricCount + 1
                   /\ failsFirst =>
                        /\ stream'.buf = WriterFlush(stream).buf
                        /\ nx'.est = [bytesCommited |-> WriterFlush(stream).buf + 8,
                                      bytesPending |-> size]
      ]_vars

\* a metric was written into a record that holds another one, after the
\* first test failed and the flush made room for it
C33_Witness ==
    /\ gpc = "scan"
    /\ Len(stream.items) >= 2
    /\ nx.est.bytesCommited > 18
    /\ nx.est.bytesPending = MetricAt(stream.items[Len(stream.items)]).size
    /\ stream.raw = nx.est.bytesPending

\* C34: every record the generator yields counts one metric or more; a scan
\* in which no metric was written yields no record.
C34_RecordsCountAtLeastOneMetric ==
    /\ \A n \in DOMAIN yielded : yielded[n].Metrics >= 1
    /\ g_ret.kind = "record" => g_ret.record.Metrics >= 1

\* after a cut, a scan that wrote no metric has ended with the end-marker
\* and without a record
C34_Witness ==
    /\ AtEndMarker
    /\ g_ret = EndMarker
    /\ Len(yielded) = 1
    /\ 0 < g.index /\ g.index < g.metricsCount
    /\ \A i \in Positions : i >= g.index => i \in (dropped \cup serFailed)

(***************************************************************************)
(* Properties of putRecordBatches (Spec).                                  *)
(***************************************************************************)
RECURSIVE SumRequestSize(_)
SumRequestSize(records) ==
    IF records = <<>> THEN 0 ELSE Head(records).RequestSize + SumRequestSize(Tail(records))

\* the running pass, or the pass that has just returned
InPass == pc \in {"pull", "wait", "countflush", "passdone"}
PassDone == pc = "passdone"
CallsOfPass == SelectSeq(calls, LAMBDA c : c.pass = attempt)

\* the records of the given calls, in the order they were submitted
RECURSIVE Submitted(_)
Submitted(cs) ==
    IF cs = <<>> THEN <<>> ELSE Head(cs).records \o Submitted(Tail(cs))

\* the i-th record of the call got no success: the call failed, or its
\* response entry has an ErrorCode
Failed(c, i) == c.outcome.err \/ c.outcome.codes[i]

\* the records of the given calls that got no success, in the order they
\* were submitted
RECURSIVE FailedIn(_)
FailedIn(cs) ==
    IF cs = <<>> THEN <<>>
    ELSE LET c == Head(cs)
             F[i \in 0..Len(c.records)] ==
                 IF i = 0 THEN <<>>
                 ELSE IF Failed(c, i) THEN Append(F[i - 1], c.records[i]) ELSE F[i - 1]
         IN  F[Len(c.records)] \o FailedIn(Tail(cs))

\* C5: no request handed to PutRecords, in the first pass or in a retry
\* pass, holds more than maxRecordsPerRequest records.
C5_BatchWithinMaxRecordsPerRequest ==
    \A n \in DOMAIN calls : Len(calls[n].records) <= maxRecordsPerRequest

\* a request of a retry pass is full, under a limit of two records
C5_Witness ==
    /\ maxRecordsPerRequest = 2
    /\ \E n \in DOMAIN calls : calls[n].pass = 1 /\ Len(calls[n].records) = 2

\* C6: no request has a cumulative RequestSize above maxRequestSize, unless
\* it is exactly one record whose own RequestSize exceeds maxRequestSize.
C6_BatchWithinMaxRequestSize ==
    \A n \in DOMAIN calls :
        \/ SumRequestSize(calls[n].records) <= maxRequestSize
        \/ /\ Len(calls[n].records) = 1
           /\ calls[n].records[1].RequestSize > maxRequestSize

\* a pass returned in which a request below maxRecordsPerRequest was cut
\* because the next record did not fit, and a request of one record above
\* maxRequestSize was submitted
C6_Witness ==
    /\ PassDone
    /\ \E n \in DOMAIN calls :
         /\ n < Len(calls)
         /\ Len(calls[n].records) >= 1
         /\ Len(calls[n].records) < maxRecordsPerRequest
         /\ SumRequestSize(calls[n].records) <= maxRequestSize
    /\ \E n \in DOMAIN calls :
         /\ Len(calls[n].records) = 1
         /\ calls[n].records[1].RequestSize > maxRequestSize

\* C7: PutRecords is never invoked with a request of zero records.
C7_NoEmptyBatch ==
    \A n \in DOMAIN calls : Len(calls[n].records) > 0

\* C8: when a pass returns, the records submitted in its requests are the
\* records pulled from the source, each once and in the order pulled, and a
\* record whose RequestSize alone exceeds maxRequestSize is alone in its
\* request.
C8_EveryRecordSubmittedOnce ==
    /\ PassDone => Submitted(CallsOfPass) = pulled
    /\ \A n \in DOMAIN calls : \A i \in DOMAIN calls[n].records :
         calls[n].records[i].RequestSize > maxRequestSize => Len(calls[n].records) = 1

\* a pass over three records returned, one of them above maxRequestSize
C8_Witness ==
    /\ PassDone
    /\ Len(pulled) = 3
    /\ \E i \in DOMAIN pulled : pulled[i].RequestSize > maxRequestSize
    /\ \E i \in DOMAIN pulled : pulled[i].RequestSize <= maxRequestSize

\* C9: the failed list putRecordBatches returns holds, in submission order,
\* exactly the records of the pass that got no success: those whose
\* response entry has an ErrorCode (and, by C10, those of a call that
\* itself failed).
C9_FailedListIsFailedRecords ==
    /\ InPass => allFailedRecords = FailedIn(CallsOfPass)
    /\ PassDone =>
         \A n \in DOMAIN calls : \A i \in DOMAIN calls[n].records :
           (calls[n].pass = attempt /\ ~calls[n].outcome.err) =>
             ( (\E j \in DOMAIN allFailedRecords : allFailedRecords[j] = calls[n].records[i])
               <=> calls[n].outcome.codes[i] )

\* a pass returned in which a response had an entry with an ErrorCode and
\* an entry without, and records of two requests failed
C9_Witness ==
    /\ PassDone
    /\ Len(CallsOfPass) >= 2
    /\ Len(allFailedRecords) = 2
    /\ \E n \in DOMAIN calls :
         /\ calls[n].pass = attempt
         /\ ~calls[n].outcome.err
         /\ \E i, j \in DOMAIN calls[n].records :
              calls[n].outcome.codes[i] /\ ~calls[n].outcome.codes[j]
    /\ \E m, n \in DOMAIN calls :
         /\ m # n
         /\ calls[m].pass = attempt /\ calls[n].pass = attempt
         /\ \E i \in DOMAIN calls[m].records : Failed(calls[m], i)
         /\ \E i \in DOMAIN calls[n].records : Failed(calls[n], i)

\* C10: when the PutRecords call itself fails, every record of that
\* request is in the failed list, the pass goes on to the end of the
\* source, and Write does not return an error for it.
C10_TransportErrorFailsWholeBatch ==
    /\ InPass =>
         \A n \in DOMAIN calls :
           (calls[n].pass = attempt /\ calls[n].outcome.err) =>
             \A i \in DOMAIN calls[n].records :
               \E j \in DOMAIN allFailedRecords : allFailedRecords[j] = calls[n].records[i]
    /\ PassDone =>
         /\ Result = EndMarker
         /\ Submitted(CallsOfPass) = (IF source = "gen" THEN yielded ELSE s.records)
    /\ w_ret \in {"none", "nil"}

\* a pass returned whose first call failed and was followed by a further call
C10_Witness ==
    /\ PassDone
    /\ Len(CallsOfPass) >= 2
    /\ CallsOfPass[1].outcome.err
    /\ Len(CallsOfPass[1].records) = 2
    /\ Len(allFailedRecords) = 2

\* the number of requests for R records at K records a request
Ceil(R, K) == (R + K - 1) \div K

\* the c-th run of maxRecordsPerRequest records of the pass (c from 1)
Chunk(c) ==
    LET K == maxRecordsPerRequest
        last == IF c * K < Len(pulled) THEN c * K ELSE Len(pulled)
    IN  SubSeq(pulled, (c - 1) * K + 1, last)

\* the request size never cuts a request of the pass
SizeLimitNeverReached ==
    \A c \in 1..Ceil(Len(pulled), maxRecordsPerRequest) :
        SumRequestSize(Chunk(c)) <= maxRequestSize

\* C17: when the request size cuts no request, a pass over R >= 1 records
\* makes Ceil(R, maxRecordsPerRequest) PutRecords calls, the c-th with the
\* c-th run of maxRecordsPerRequest records: each full but possibly the last.
C17_CallsAreCeilOfRecords ==
    (PassDone /\ Len(pulled) >= 1 /\ SizeLimitNeverReached) =>
        /\ Len(CallsOfPass) = Ceil(Len(pulled), maxRecordsPerRequest)
        /\ \A c \in DOMAIN CallsOfPass :
             /\ CallsOfPass[c].records = Chunk(c)
             /\ c < Len(CallsOfPass) => Len(CallsOfPass[c].records) = maxRecordsPerRequest
             /\ Len(CallsOfPass[c].records) >= 1

\* three records of one metric each under a limit of two records: a
\* request of two, then a request of one
C17_Witness ==
    /\ PassDone
    /\ attempt = 0
    /\ maxRecordsPerRequest = 2
    /\ SizeLimitNeverReached
    /\ Len(pulled) = 3
    /\ \A i \in DOMAIN pulled : pulled[i].Metrics = 1
    /\ Len(calls) = 2
    /\ Len(calls[1].records) = 2
    /\ Len(calls[2].records) = 1

(***************************************************************************)
(* Properties of the retry loop (SpecRetry).                               *)
(***************************************************************************)
\* the calls of pass p (the first pass is pass 0)
CallsIn(p) == SelectSeq(calls, LAMBDA c : c.pass = p)

\* C11: a retry pass reads a record set holding the records that failed in
\* the pass before it, in the same order, and submits exactly those; a
\* record that got a success in some pass is in no request of a later pass.
C11_RetryReplaysFailedRecords ==
    /\ (InPass /\ attempt >= 1) =>
         /\ source = "set"
         /\ s.records = FailedIn(CallsIn(attempt - 1))
    /\ (PassDone /\ attempt >= 1) =>
         Submitted(CallsOfPass) = FailedIn(CallsIn(attempt - 1))
    /\ \A m, n \in DOMAIN calls :
         calls[m].pass < calls[n].pass =>
           \A i \in DOMAIN calls[m].records : \A j \in DOMAIN calls[n].records :
             ~Failed(calls[m], i) => calls[n].records[j] # calls[m].records[i]

\* the second retry pass returned; in the first pass two requests were
\* made, and in the first retry pass a record succeeded and another failed
C11_Witness ==
    /\ PassDone
    /\ attempt = 2
    /\ Len(CallsIn(0)) >= 2
    /\ \E n \in DOMAIN calls :
         /\ calls[n].pass = 1
         /\ \E i \in DOMAIN calls[n].records : ~Failed(calls[n], i)
    /\ Len(FailedIn(CallsIn(1))) >= 1
    /\ Len(FailedIn(CallsIn(1))) < Len(FailedIn(CallsIn(0)))

\* C12: Write returns, after at most MaxRecordRetries + 1 passes (one pass
\* when MaxRecordRetries = 0): attempt starts at 0, goes up by one per pass
\* that leaves failed records, and no pass runs with attempt above
\* MaxRecordRetries, whatever PutRecords answers.
C12_RetryLoopTerminates ==
    /\ [](/\ attempt <= MaxRecordRetries + 1
          /\ InPass => attempt <= MaxRecordRetries
          /\ \A n \in DOMAIN calls : calls[n].pass <= MaxRecordRetries)
    /\ <>(pc = "returned")

\* Write returned after the last of three passes left failed records
C12_Witness ==
    /\ pc = "returned"
    /\ MaxRecordRetries = 2
    /\ attempt = 3
    /\ \A p \in 0..2 : CallsIn(p) # <<>>

\* the records that failed in the last pass the retries permit
FailedInLastPass == FailedIn(CallsIn(MaxRecordRetries))

\* C35: g.pkGenerator is called once for each record the generator yields,
\* and at no other point: not for a dropped metric, not for the end-marker,
\* not when a record set hands a record out again in a retry pass.
C35_PartitionKeyOncePerRecord ==
    /\ pkCalls = Len(yielded)
    /\ \A n \in DOMAIN yielded : yielded[n].pk = pkLen
    /\ \A n \in DOMAIN s_out : \E k \in DOMAIN yielded : s_out[n] = yielded[k]

\* a Write has returned after the generator dropped a metric, yielded
\* records and returned the end-marker, and a retry pass replayed records
C35_Witness ==
    /\ pc = "returned"
    /\ g_ended
    /\ dropped # {}
    /\ Len(yielded) >= 2
    /\ pkCalls = Len(yielded)
    /\ s_out # <<>>

\* C13: when records still fail after the last permitted pass, Write logs
\* the drop once, with the number of records that failed in that pass and
\* the sum of their Metrics, and returns nil; it logs no drop otherwise.
C13_DropReportedOnce ==
    /\ Len(errorLog) <= 1
    /\ errorLog # <<>> => pc = "returned"
    /\ pc = "returned" =>
         /\ w_ret = "nil"
         /\ (FailedInLastPass # <<>>) <=> (Len(errorLog) = 1)
         /\ errorLog # <<>> =>
              /\ errorLog[1].failedCount = Len(FailedInLastPass)
              /\ errorLog[1].dropped = SumMetrics(FailedInLastPass)
              /\ errorLog[1].attempt = MaxRecordRetries + 1

\* Write returned after two retries, dropping one record of several metrics
\* while another record of the first pass had succeeded
C13_Witness ==
    /\ pc = "returned"
    /\ MaxRecordRetries = 2
    /\ Len(errorLog) = 1
    /\ errorLog[1].failedCount = 1
    /\ errorLog[1].dropped >= 2
    /\ Len(Submitted(CallsIn(0))) >= 2

\* C16: if the failed records all succeed in a retry pass the retries
\* permit, Write returns nil and logs no drop; and PutRecords is called for
\* the requests of the first pass and, in each later pass, for the records
\* that failed in the pass before it, and for nothing else.
C16_RetrySucceedsWithoutDrop ==
    /\ errorLog # <<>> => FailedInLastPass # <<>>
    /\ (pc = "returned" /\ FailedInLastPass = <<>>) => (w_ret = "nil" /\ errorLog = <<>>)
    /\ pc = "returned" =>
         \A p \in 1..MaxRecordRetries :
           /\ Submitted(CallsIn(p)) = FailedIn(CallsIn(p - 1))
           /\ FailedIn(CallsIn(p - 1)) = <<>> => CallsIn(p) = <<>>

\* a request of two records whose second record failed, then a request
\* holding that record alone, which succeeded; Write returned without a drop
C16_Witness ==
    /\ pc = "returned"
    /\ w_ret = "nil"
    /\ errorLog = <<>>
    /\ Len(calls) = 2
    /\ Len(calls[1].records) = 2
    /\ calls[1].outcome = Response(<<FALSE, TRUE>>)
    /\ calls[2].pass = 1
    /\ calls[2].records = <<calls[1].records[2]>>
    /\ calls[2].outcome = Response(<<FALSE>>)

\* the records of the given calls that got a success, in the order they
\* were submitted
RECURSIVE SucceededIn(_)
SucceededIn(cs) ==
    IF cs = <<>> THEN <<>>
    ELSE LET c == Head(cs)
             F[i \in 0..Len(c.records)] ==
                 IF i = 0 THEN <<>>
                 ELSE IF Failed(c, i) THEN F[i - 1] ELSE Append(F[i - 1], c.records[i])
         IN  F[Len(c.records)] \o SucceededIn(Tail(cs))

\* the dropped-metric count of the Errorf after the last attempt, 0 if none
ReportedDropped == IF errorLog = <<>> THEN 0 ELSE errorLog[Len(errorLog)].dropped

\* C38: when Write returns nil, the metrics counted by the records the
\* generator yielded are those of the records that got a success, each of
\* them once, plus the dropped-metric count reported after the last
\* attempt (0 when nothing was reported).
C38_MetricsConserved ==
    (pc = "returned" /\ w_ret = "nil") =>
        /\ SumMetrics(yielded) = SumMetrics(SucceededIn(calls)) + ReportedDropped
        /\ \A i, j \in DOMAIN SucceededIn(calls) :
             i # j => SucceededIn(calls)[i] # SucceededIn(calls)[j]

\* Write returned nil after two retries: a record succeeded in the first
\* pass, another in a retry pass, and a third was dropped and reported
C38_Witness ==
    /\ pc = "returned"
    /\ w_ret = "nil"
    /\ MaxRecordRetries = 2
    /\ Len(yielded) = 3
    /\ Len(SucceededIn(CallsIn(0))) = 1
    /\ Len(SucceededIn(calls)) = 2
    /\ ReportedDropped >= 1
    /\ SumMetrics(yielded) = SumMetrics(SucceededIn(calls)) + ReportedDropped

(***************************************************************************)
(* Properties of Write over a writer that may fail (SpecFault).            *)
(***************************************************************************)
\* C14: Write returns an error only when Next() of its record source
\* returned an error; records that failed, failed PutRecords calls, metrics
\* skipped by the serializer or dropped as too large, and records dropped
\* after the retries leave the result nil.
C14_ErrorOnlyFromSource ==
    /\ w_ret = "err" => (source = "gen" /\ g_ret = ErrorResult)
    /\ (pc = "returned" /\ Result # ErrorResult) => w_ret = "nil"

\* Write returned nil after a metric failed to serialize, a metric was
\* dropped as too large, a PutRecords call failed, and a record that failed
\* in the last pass was dropped
C14_Witness ==
    /\ pc = "returned"
    /\ w_ret = "nil"
    /\ serFailed # {}
    /\ dropped # {}
    /\ errorLog # <<>>
    /\ \E n \in DOMAIN calls : calls[n].outcome.err
    /\ \E n \in DOMAIN calls : ~calls[n].outcome.err /\ FailedRecordCount(calls[n].outcome) > 0

\* C15: once Next() of the source has returned an error, no PutRecords call
\* is made and no retry pass is started: Write returns the error at once,
\* leaving the batch in hand unsent.
C15_SourceErrorStopsWrite ==
    [][ (gpc = "idle" /\ g_ret = ErrorResult) =>
          /\ calls' = calls
          /\ attempt' = attempt
          /\ source' = source
          /\ s' = s
          /\ g' = g
          /\ pc' = "returned"
          /\ w_ret' = "err" ]_vars

\* Write returned the error of Next() after a request had been made, with a
\* pulled record still in the batch
C15_Witness ==
    /\ pc = "returned"
    /\ w_ret = "err"
    /\ calls # <<>>
    /\ \A n \in DOMAIN calls : calls[n].records # <<>>
    /\ batch # <<>>
    /\ Len(Submitted(calls)) < Len(pulled)
    /\ attempt = 0

(***************************************************************************)
(* Properties of Connect, under SpecConnect                                *)
(***************************************************************************)
ConfigErrors ==
    { "stream_name is required",
      "max_record_retries must be greater than or equal to 0",
      "max_record_size must be greater than 1000 bytes",
      "max_record_size must be less than or equal to the aws limit" }

\* C23: unless max_record_size is greater than 1000 and at most 1048576,
\* Connect returns a configuration error, the generator is not created and
\* no metric is ever processed.
C23_ConnectRejectsRecordSizeOutOfRange ==
    (pc # "config" /\ ~(MaxRecordSize > 1000 /\ MaxRecordSize <= 1048576))
        => /\ c_ret \in ConfigErrors
           /\ recordGenerator = "nil"
           /\ serialized = {}
           /\ calls = <<>>

(***************************************************************************)
(* Properties of a Write that follows another, under SpecAgain             *)
(***************************************************************************)
\* C24: a Write called with an empty metric list returns nil, leaves the
\* generator (metrics, index, stream, what it yielded) as it was, and makes
\* no call of PutRecords.
C24_EmptyWriteIsNoOp ==
    [][ (pc = "idle" /\ pc' # "idle" /\ w_metrics' = <<>>)
          => /\ w_ret' = "nil"
             /\ pc' = "returned"
             /\ UNCHANGED genVars
             /\ calls' = calls ]_vars

\* an empty Write has returned on an output whose generator still holds the
\* metrics and the records of the Write before it
C24_Witness ==
    /\ pc = "returned"
    /\ w_metrics = <<>>
    /\ w_ret = "nil"
    /\ calls = <<>>
    /\ g.metrics # <<>>
    /\ yielded # <<>>

(***************************************************************************)
(* Properties of overlapping Write calls, under SpecOverlap                *)
(***************************************************************************)
\* C25: a Write that overlaps another Write on the same output keeps its own
\* generator state: while it runs, the metrics the generator reads are the
\* metrics this Write was called with, so the records it puts are made of
\* its own metrics.
C25_OverlappingWritesShareNoGenerator ==
    pc \in {"pull", "wait", "countflush", "passdone"} => g.metrics = w_metrics

(***************************************************************************)
(* Properties of gZipSizeEstimator, under SpecEstimator                    *)
(***************************************************************************)
\* C26: MaxPotentialSizeWith(a) returns bytesCommited + (bytesPending + a)
\* + 5 * (floor((bytesPending + a) / 16383) + 1), and leaves bytesCommited
\* and bytesPending as they were.
C26_MaxPotentialSizeFormula ==
    e_ret.op = "MaxPotentialSizeWith"
        => /\ e_ret.arg >= 0
           /\ e_ret.value = e_ret.before.bytesCommited
                              + (e_ret.before.bytesPending + e_ret.arg)
                              + 5 * (((e_ret.before.bytesPending + e_ret.arg) \div 16383) + 1)
           /\ e = e_ret.before

\* asked of an estimator with committed and pending bytes, for a total that
\* is a whole number of 16383-byte blocks
C26_Witness ==
    /\ e_ret.op = "MaxPotentialSizeWith"
    /\ e_ret.before.bytesCommited = 1028
    /\ e_ret.before.bytesPending = 16383
    /\ e_ret.arg = 16383
    /\ e_ret.value = 1028 + 32766 + 15

\* C27: a new estimator has bytesCommited = 10 + 8 and bytesPending = 0;
\* RecordBytes(n) adds n to bytesPending and leaves bytesCommited;
\* Commit(f) sets bytesCommited to f + 8 and bytesPending to 0.
C27_EstimatorUpdates ==
    /\ e_ret.op \in {"none", "createGZipSizeEstimator"}
         => e = [bytesCommited |-> 10 + 8, bytesPending |-> 0]
    /\ e_ret.op = "RecordBytes"
         => e = [bytesCommited |-> e_ret.before.bytesCommited,
                 bytesPending |-> e_ret.before.bytesPending + e_ret.arg]
    /\ e_ret.op = "Commit"
         => e = [bytesCommited |-> e_ret.arg + 8, bytesPending |-> 0]

\* Commit on an estimator that had pending bytes and an earlier commit
C27_Witness ==
    /\ e_ret.op = "Commit"
    /\ e_ret.before.bytesPending > 0
    /\ e_ret.before.bytesCommited = 15 + 8
    /\ e_ret.arg = 1020
    /\ e = [bytesCommited |-> 1028, bytesPending |-> 0]

(***************************************************************************)
(* Properties of the records a Write holds, under SpecOverlap              *)
(***************************************************************************)
Range(seq) == { seq[n] : n \in DOMAIN seq }

\* the records held anywhere in the output: pulled from an iterator, in the
\* batch, in a PutRecords call, failed and kept for a retry, in a record set
Held ==
    Range(pulled) \cup Range(batch) \cup Range(allFailedRecords) \cup Range(s.records)
        \cup Range(s_out) \cup UNION { Range(calls[n].records) : n \in DOMAIN calls }
        \cup (IF g_ret.kind = "record" THEN {g_ret.record} ELSE {})
        \cup (IF s_ret.kind = "record" THEN {s_ret.record} ELSE {})

\* C36: a yielded record stays as it was yielded: no later Next() or Reset()
\* on the generator, and no batching, delivery or replay in a retry pass,
\* changes its payload, its metric count or its RequestSize.
C36_YieldedRecordsImmutable ==
    [][ /\ \A n \in DOMAIN yielded :
             n \in DOMAIN yielded' /\ yielded'[n] = yielded[n]
        /\ \A r \in Held' :
             /\ r.id \in DOMAIN yielded'
             /\ r = yielded'[r.id]
             /\ r.RequestSize = r.data + r.pk
             /\ r.Metrics = Len(r.items) ]_vars

\* a record yielded before a Reset by another call and before later Next()
\* calls was put, failed, and was replayed by a record set
C36_Witness ==
    /\ g.metrics # w_metrics
    /\ Len(yielded) >= 2
    /\ attempt >= 1
    /\ s_out # <<>>
    /\ s_out[1] = yielded[1]
    /\ \E n \in DOMAIN calls : calls[n].pass = 0 /\ yielded[1] \in Range(calls[n].records)

====
